---- MODULE Spec2Model ----
(***************************************************************************)
(* Model of sui-readable: the POST /api/explain handler                    *)
(* (src/src/handlers.rs), the ledger client and the explanation engine     *)
(* (src/src/sui_client.rs) and the records they build (src/src/models.rs). *)
(*                                                                         *)
(* Strings are sequences of one-character strings, so that slicing,        *)
(* substring search and splitting are computed as the code computes them.  *)
(* Every string of the model is ASCII except the bullet of the summary,    *)
(* which is the single element "U+2022".  Option<T> is a sequence of       *)
(* length 0 (None) or 1 (Some).                                            *)
(***************************************************************************)
EXTENDS Integers, Sequences, FiniteSets, TLC

(***************************************************************************)
(* Bounds of the model.                                                    *)
(***************************************************************************)
\* gas_used is a u64 in the code; the model keeps unsigned wrap-around
\* arithmetic at a width that TLC's integers can hold.
GasBits == 12
MaxChanges == 2
MaxBalances == 2
MaxEvents == 1
MaxAddrLen == 11

(***************************************************************************)
(* Option<T>                                                               *)
(***************************************************************************)
None == << >>
Some(x) == << x >>
IsSome(o) == Len(o) = 1
Unwrap(o) == o[1]

(***************************************************************************)
(* String helpers (str::contains, str::split, integer Display)             *)
(***************************************************************************)
RECURSIVE Pow(_, _)
Pow(b, e) == IF e = 0 THEN 1 ELSE b * Pow(b, e - 1)

\* haystack.contains(needle)
Contains(h, n) ==
    \E i \in 1..(Len(h) - Len(n) + 1) : SubSeq(h, i, i + Len(n) - 1) = n

EndsWith(s, p) == Len(s) >= Len(p) /\ SubSeq(s, Len(s) - Len(p) + 1, Len(s)) = p

\* s.split(sep).last(): matches of sep are found left to right and do not
\* overlap; the result is what follows the last match (all of s if none).
RECURSIVE SplitLast(_, _)
SplitLast(s, sep) ==
    IF ~Contains(s, sep) THEN s
    ELSE LET i == CHOOSE k \in 1..(Len(s) - Len(sep) + 1) :
                     /\ SubSeq(s, k, k + Len(sep) - 1) = sep
                     /\ \A j \in 1..(k - 1) : SubSeq(s, j, j + Len(sep) - 1) # sep
         IN SplitLast(SubSeq(s, i + Len(sep), Len(s)), sep)

DigitChar(d) == <<"0", "1", "2", "3", "4", "5", "6", "7", "8", "9">>[d + 1]

\* Display of a non-negative integer
RECURSIVE Digits(_)
Digits(n) == IF n < 10 THEN << DigitChar(n) >>
             ELSE Digits(n \div 10) \o << DigitChar(n % 10) >>

\* the digits of n, left-padded with zeros to width w
RECURSIVE PadDigits(_, _)
PadDigits(n, w) == IF w = 0 THEN << >>
                   ELSE PadDigits(n \div 10, w - 1) \o << DigitChar(n % 10) >>

Abs(n) == IF n < 0 THEN -n ELSE n

(***************************************************************************)
(* String literals of the source                                           *)
(***************************************************************************)
STR_SUI_SUFFIX == <<" ", "S", "U", "I">>
STR_SUI == <<"S", "U", "I">>
STR_NATIVE_MARKER == <<"0", "x", "2", ":", ":", "s", "u", "i", ":", ":", "S", "U", "I">>
STR_COIN_MARKER == <<":", ":", "c", "o", "i", "n", ":", ":", "C", "o", "i", "n">>
STR_NFT_MARKER == <<":", ":", "n", "f", "t", ":", ":">>
STR_SEP == <<":", ":">>
STR_SUI_COIN == <<"S", "U", "I", " ", "C", "o", "i", "n">>
STR_COIN == <<"C", "o", "i", "n">>
STR_NFT == <<"N", "F", "T">>
STR_DOTS == <<".", ".", ".">>
STR_UNKNOWN == <<"U", "n", "k", "n", "o", "w", "n">>
STR_UNKNOWN_CHANGE == STR_UNKNOWN \o <<" ", "o", "b", "j", "e", "c", "t", " ", "c", "h", "a", "n", "g", "e">>
STR_CREATED == <<"C", "r", "e", "a", "t", "e", "d">>
STR_TRANSFERRED == <<"T", "r", "a", "n", "s", "f", "e", "r", "r", "e", "d">>
STR_MUTATED == <<"M", "u", "t", "a", "t", "e", "d">>
STR_MODIFIED == <<"M", "o", "d", "i", "f", "i", "e", "d">>
STR_DELETED == <<"D", "e", "l", "e", "t", "e", "d">>
STR_NEW == <<" ", "n", "e", "w", " ">>
STR_OWNED_BY == <<" ", "o", "w", "n", "e", "d", " ", "b", "y", " ">>
STR_FROM == <<" ", "f", "r", "o", "m", " ">>
STR_TO == <<" ", "t", "o", " ">>
STR_SUCCESS == <<"S", "u", "c", "c", "e", "s", "s">>
STR_FAILED == <<"F", "a", "i", "l", "e", "d", " ", ":", " ">>
STR_EVENT == <<"E", "v", "e", "n", "t", ":", " ">>
STR_FROM_PACKAGE == <<" ", "f", "r", "o", "m", " ", "p", "a", "c", "k", "a", "g", "e", " ">>
STR_EXECUTED_WITH == <<"T", "r", "a", "n", "s", "a", "c", "t", "i", "o", "n", " ", "e", "x", "e", "c", "u", "t", "e", "d", " ", "w", "i", "t", "h", " ">>
STR_GAS == <<" ", "g", "a", "s">>
STR_OBJECT_CHANGE == <<" ", "o", "b", "j", "e", "c", "t", " ", "c", "h", "a", "n", "g", "e">>
STR_BALANCE_CHANGE == <<" ", "b", "a", "l", "a", "n", "c", "e", " ", "c", "h", "a", "n", "g", "e">>
STR_S == <<"s">>
STR_BULLET == <<" ", "U+2022", " ">>
STR_BULLET_GAS == <<" ", "U+2022", " ", "G", "a", "s", ":", " ">>

(***************************************************************************)
(* Helpers of the explanation engine                                       *)
(***************************************************************************)
\* SuiClient::simplify_type
simplify_type(type_str) ==
    IF Contains(type_str, STR_NATIVE_MARKER) THEN STR_SUI_COIN
    ELSE IF Contains(type_str, STR_COIN_MARKER) THEN STR_COIN
    ELSE IF Contains(type_str, STR_NFT_MARKER) THEN STR_NFT
    ELSE SplitLast(type_str, STR_SEP)

\* shorten_address with the test address.len() >= 10
shorten_address_mut(address) ==
    IF Len(address) >= 10
    THEN SubSeq(address, 1, 6) \o STR_DOTS \o SubSeq(address, Len(address) - 4 + 1, Len(address))
    ELSE address

\* SuiClient::shorten_address
shorten_address(address) ==
    IF Len(address) > 10
    THEN SubSeq(address, 1, 6) \o STR_DOTS \o SubSeq(address, Len(address) - 4 + 1, Len(address))
    ELSE address

\* format!("{:.6}", n as f64 / 1_000_000_000.0) for an integer n >= 0: the
\* quotient rounded to the nearest millionth.  The inputs of the model never
\* lie halfway between two millionths (n % 1000 # 500).
Fixed6(n) ==
    LET micro == (n + 500) \div 1000
    IN Digits(micro \div 1000000) \o <<".">> \o PadDigits(micro % 1000000, 6)

\* format!("{:.6} SUI", gas_used as f64 / 1_000_000_000.0)
FormatGasSui(gas) == Fixed6(gas) \o STR_SUI_SUFFIX

\* format!("{:+.6} SUI", amount as f64 / 1_000_000_000.0)
FormatSignedSui(amount) ==
    (IF amount < 0 THEN <<"-">> ELSE <<"+">>) \o Fixed6(Abs(amount)) \o STR_SUI_SUFFIX

\* format!("{:+}", amount)
FormatSignedInt(amount) ==
    (IF amount < 0 THEN <<"-">> ELSE <<"+">>) \o Digits(Abs(amount))


\* parse_object_change keeping the sender of a Transferred object as owner
parse_object_change_mut(change) ==
    CASE change.variant = "Created" ->
           [change_type |-> STR_CREATED,
            object_type |-> simplify_type(change.object_type),
            object_id |-> change.object_id,
            owner |-> Some(change.owner),
            details |-> STR_CREATED \o STR_NEW \o simplify_type(change.object_type)
                          \o STR_OWNED_BY \o shorten_address(change.owner)]
      [] change.variant = "Transferred" ->
           [change_type |-> STR_TRANSFERRED,
            object_type |-> simplify_type(change.object_type),
            object_id |-> change.object_id,
            owner |-> Some(change.sender),
            details |-> STR_TRANSFERRED \o <<" ">> \o simplify_type(change.object_type)
                          \o STR_FROM \o shorten_address(change.sender)
                          \o STR_TO \o shorten_address(change.recipient)]
      [] change.variant = "Mutated" ->
           [change_type |-> STR_MUTATED,
            object_type |-> simplify_type(change.object_type),
            object_id |-> change.object_id,
            owner |-> Some(change.owner),
            details |-> STR_MODIFIED \o <<" ">> \o simplify_type(change.object_type)
                          \o STR_OWNED_BY \o shorten_address(change.owner)]
      [] change.variant = "Deleted" ->
           [change_type |-> STR_DELETED,
            object_type |-> simplify_type(change.object_type),
            object_id |-> change.object_id,
            owner |-> None,
            details |-> STR_DELETED \o <<" ">> \o simplify_type(change.object_type)]
      [] OTHER ->
           [change_type |-> STR_UNKNOWN,
            object_type |-> STR_UNKNOWN,
            object_id |-> STR_UNKNOWN,
            owner |-> None,
            details |-> STR_UNKNOWN_CHANGE]

\* SuiClient::parse_object_change; a raw change is a record with the variant
\* and the fields of that variant already rendered by to_string()
parse_object_change(change) ==
    CASE change.variant = "Created" ->
           [change_type |-> STR_CREATED,
            object_type |-> simplify_type(change.object_type),
            object_id |-> change.object_id,
            owner |-> Some(change.owner),
            details |-> STR_CREATED \o STR_NEW \o simplify_type(change.object_type)
                          \o STR_OWNED_BY \o shorten_address(change.owner)]
      [] change.variant = "Transferred" ->
           [change_type |-> STR_TRANSFERRED,
            object_type |-> simplify_type(change.object_type),
            object_id |-> change.object_id,
            owner |-> Some(change.recipient),
            details |-> STR_TRANSFERRED \o <<" ">> \o simplify_type(change.object_type)
                          \o STR_FROM \o shorten_address(change.sender)
                          \o STR_TO \o shorten_address(change.recipient)]
      [] change.variant = "Mutated" ->
           [change_type |-> STR_MUTATED,
            object_type |-> simplify_type(change.object_type),
            object_id |-> change.object_id,
            owner |-> Some(change.owner),
            details |-> STR_MODIFIED \o <<" ">> \o simplify_type(change.object_type)
                          \o STR_OWNED_BY \o shorten_address(change.owner)]
      [] change.variant = "Deleted" ->
           [change_type |-> STR_DELETED,
            object_type |-> simplify_type(change.object_type),
            object_id |-> change.object_id,
            owner |-> None,
            details |-> STR_DELETED \o <<" ">> \o simplify_type(change.object_type)]
      [] OTHER ->
           [change_type |-> STR_UNKNOWN,
            object_type |-> STR_UNKNOWN,
            object_id |-> STR_UNKNOWN,
            owner |-> None,
            details |-> STR_UNKNOWN_CHANGE]

\* SuiClient::parse_balance_change
parse_balance_change(balance) ==
    LET amount == balance.amount
        coin_type == simplify_type(balance.coin_type)
        amount_readable == IF Contains(coin_type, STR_SUI)
                           THEN FormatSignedSui(amount)
                           ELSE FormatSignedInt(amount)
    IN [owner |-> balance.owner,
        coin_type |-> coin_type,
        amount |-> amount,
        amount_readable |-> amount_readable]

\* the event line pushed by SuiClient::parse_transaction
FormatEvent(event) ==
    STR_EVENT \o simplify_type(event.type_) \o STR_FROM_PACKAGE \o event.package_id

\* parts.join(" U+2022 ")
RECURSIVE Join(_, _)
Join(parts, sep) ==
    IF Len(parts) = 0 THEN << >>
    ELSE IF Len(parts) = 1 THEN parts[1]
    ELSE parts[1] \o sep \o Join(Tail(parts), sep)

\* generate_summary pluralising the balance part on action_count
generate_summary_mut(explanation) ==
    LET action_count == Len(explanation.actions)
        balance_count == Len(explanation.balance_changes)
        object_part == IF action_count > 0
                       THEN << Digits(action_count) \o STR_OBJECT_CHANGE
                                 \o (IF action_count = 1 THEN << >> ELSE STR_S) >>
                       ELSE << >>
        balance_part == IF balance_count > 0
                        THEN << Digits(balance_count) \o STR_BALANCE_CHANGE
                                  \o (IF action_count = 1 THEN << >> ELSE STR_S) >>
                        ELSE << >>
        parts == object_part \o balance_part
    IN IF action_count = 0 /\ balance_count = 0
       THEN STR_EXECUTED_WITH \o explanation.gas_used_sui \o STR_GAS
       ELSE Join(parts, STR_BULLET) \o STR_BULLET_GAS \o explanation.gas_used_sui

\* SuiClient::generate_summary
generate_summary(explanation) ==
    LET action_count == Len(explanation.actions)
        balance_count == Len(explanation.balance_changes)
        object_part == IF action_count > 0
                       THEN << Digits(action_count) \o STR_OBJECT_CHANGE
                                 \o (IF action_count = 1 THEN << >> ELSE STR_S) >>
                       ELSE << >>
        balance_part == IF balance_count > 0
                        THEN << Digits(balance_count) \o STR_BALANCE_CHANGE
                                  \o (IF balance_count = 1 THEN << >> ELSE STR_S) >>
                        ELSE << >>
        parts == object_part \o balance_part
    IN IF action_count = 0 /\ balance_count = 0
       THEN STR_EXECUTED_WITH \o explanation.gas_used_sui \o STR_GAS
       ELSE Join(parts, STR_BULLET) \o STR_BULLET_GAS \o explanation.gas_used_sui

\* TransactionExplanation { digest, ..Default::default() }
DefaultExplanation(digest) ==
    [digest |-> digest, sender |-> << >>, status |-> << >>, gas_used |-> 0,
     gas_used_sui |-> << >>, actions |-> << >>, object_changes |-> << >>,
     balance_changes |-> << >>, events |-> << >>, summary |-> << >>]

(***************************************************************************)
(* Inputs: digests, addresses, type paths and the sections of a raw        *)
(* SuiTransactionBlockResponse                                             *)
(***************************************************************************)
SeqsUpTo(S, n) == UNION {[1..l -> S] : l \in 0..n}

DIGEST_OK == <<"9", "m", "K", "q">>
DIGEST_BAD == <<"n", "o", "t", " ", "a", " ", "d", "i", "g", "e", "s", "t", "!">>
Digests == {DIGEST_OK, DIGEST_BAD}
\* digest.parse::<TransactionDigest>() succeeds
DigestWellFormed(digest) == digest = DIGEST_OK

ADDR_LONG == <<"0", "x", "a", "b", "c", "d", "e", "f", "a", "b", "c", "d", "e", "f", "a", "b", "c", "d", "e", "f", "a", "b", "c", "d", "e", "f">>
ADDR_11 == <<"0", "x", "1", "2", "3", "4", "5", "6", "7", "8", "9">>
ADDR_10 == <<"0", "x", "5", "e", "4", "d", "e", "4", "d", "2">>
ADDR_SHORT == <<"0", "x", "2">>
Addresses == {ADDR_LONG, ADDR_11, ADDR_10, ADDR_SHORT}

TYPE_SUI == STR_NATIVE_MARKER
TYPE_SUI_COIN == <<"0", "x", "2", ":", ":", "c", "o", "i", "n", ":", ":", "C", "o", "i", "n", "<", "0", "x", "2", ":", ":", "s", "u", "i", ":", ":", "S", "U", "I", ">">>
TYPE_COIN == <<"0", "x", "a", ":", ":", "c", "o", "i", "n", ":", ":", "C", "o", "i", "n", "<", "0", "x", "a", ":", ":", "t", ":", ":", "T", ">">>
TYPE_NFT == <<"0", "x", "a", ":", ":", "n", "f", "t", ":", ":", "A", "r", "t">>
TYPE_TOKEN == <<"0", "x", "a", "b", "c", ":", ":", "c", "u", "s", "t", "o", "m", ":", ":", "T", "o", "k", "e", "n">>
TYPE_SUIX == <<"0", "x", "a", ":", ":", "t", ":", ":", "S", "U", "I", "X">>
TYPE_FAKE_SUI == <<"0", "x", "a", ":", ":", "s", "u", "i", ":", ":", "S", "U", "I">>
TYPE_ODD_SEP == <<"0", "x", "a", ":", ":", ":", "b">>
TYPE_PLAIN == <<"u", "6", "4">>
TypePaths == {TYPE_SUI, TYPE_SUI_COIN, TYPE_COIN, TYPE_NFT, TYPE_TOKEN, TYPE_SUIX,
              TYPE_FAKE_SUI, TYPE_ODD_SEP, TYPE_PLAIN}

OBJ_ID == <<"0", "x", "7", "7">>

RawChange(variant, object_type, owner, sender, recipient) ==
    [variant |-> variant, object_type |-> object_type, object_id |-> OBJ_ID,
     owner |-> owner, sender |-> sender, recipient |-> recipient]

\* the variants of sui_json_rpc_types::ObjectChange
Variants == {"Created", "Transferred", "Mutated", "Deleted", "Published", "Wrapped"}

\* every raw object change over the type paths and addresses above
RawChangeOf(variant, object_type, a, b) ==
    CASE variant \in {"Created", "Mutated"} -> RawChange(variant, object_type, a, << >>, << >>)
      [] variant = "Transferred" -> RawChange(variant, object_type, << >>, a, b)
      [] variant = "Deleted" -> RawChange(variant, object_type, << >>, a, << >>)
      [] variant = "Wrapped" -> RawChange(variant, object_type, << >>, a, << >>)
      [] OTHER -> RawChange(variant, << >>, << >>, << >>, << >>)

AllRawChanges ==
    {RawChangeOf(v, t, a, b) : v \in Variants, t \in TypePaths, a \in Addresses, b \in Addresses}

\* the raw object changes a fetched record is built from
RecordChanges ==
    {RawChangeOf("Created", TYPE_SUI_COIN, ADDR_LONG, ADDR_LONG),
     RawChangeOf("Transferred", TYPE_NFT, ADDR_11, ADDR_LONG),
     RawChangeOf("Published", << >>, << >>, << >>)}

\* amounts in MIST; none lies halfway between two millionths of a SUI
Amounts == {-1500000000, -1, 0, 42, 1200, 1500000000}

AllRawBalances ==
    {[owner |-> a, coin_type |-> t, amount |-> n] : a \in {ADDR_LONG}, t \in TypePaths, n \in Amounts}

RecordBalances ==
    {[owner |-> ADDR_LONG, coin_type |-> TYPE_SUI, amount |-> -1500000000],
     [owner |-> ADDR_11, coin_type |-> TYPE_TOKEN, amount |-> 42]}

RecordEvents == {[type_ |-> TYPE_NFT, package_id |-> ADDR_SHORT]}

\* gas costs in MIST
Costs == {0, 300}

RawEffects ==
    [ok : BOOLEAN, computation_cost : Costs, storage_cost : Costs, storage_rebate : Costs]

\* Debug rendering of a failed execution status
STR_STATUS_DEBUG == <<"F", "a", "i", "l", "u", "r", "e">>

\* the raw records get_transaction_with_options can return
RawRecords ==
    [transaction : {None, Some(ADDR_LONG)},
     effects : {None} \cup {Some(e) : e \in RawEffects},
     object_changes : {None} \cup {Some(l) : l \in SeqsUpTo(RecordChanges, MaxChanges)},
     balance_changes : {None} \cup {Some(l) : l \in SeqsUpTo(RecordBalances, MaxBalances)},
     events : {None} \cup {Some(l) : l \in SeqsUpTo(RecordEvents, MaxEvents)}]


\* the alphabet of the addresses handed to shorten_address on its own
AddrChars == {"0", "f"}

(***************************************************************************)
(* State                                                                   *)
(***************************************************************************)
VARIABLES
    pc,               \* position of the request in the handler and the engine
    digest,           \* payload.digest
    tx,               \* Option: the raw record returned by the fetch
    explanation,      \* the TransactionExplanation under construction
    idx,              \* position of the loop over tx.object_changes
    response,         \* Option: the (StatusCode, ExplainResponse) returned
    log,              \* the steps the request has taken, in order
    call              \* the last direct call of an engine helper

vars == <<pc, digest, tx, explanation, idx, response, log, call>>

U64Mod == Pow(2, GasBits)

NoCall == [fn |-> "none", arg |-> << >>, ret |-> << >>]

Init ==
    /\ pc = "connect"
    /\ digest \in Digests
    /\ tx = None
    /\ explanation = DefaultExplanation(<< >>)
    /\ idx = 1
    /\ response = None
    /\ log = << >>
    /\ call = NoCall

(***************************************************************************)
(* The handler: handlers.rs explain_transaction                            *)
(***************************************************************************)
\* an Err arm that keeps the error message to the log and leaves error empty
ErrorResponse_mut(code, message) ==
    [status_code |-> code, success |-> FALSE, explanation |-> None, error |-> None]

\* ExplainResponse of the two Err arms of the handler
ErrorResponse(code, message) ==
    [status_code |-> code, success |-> FALSE, explanation |-> None, error |-> Some(message)]

\* ExplainResponse of the Ok arm of the handler
OkResponse(expl) ==
    [status_code |-> 200, success |-> TRUE, explanation |-> Some(expl), error |-> None]

\* SuiClient::new().await and the Err arm that answers 500
Connect ==
    /\ pc = "connect"
    /\ log' = Append(log, "connect")
    /\ \/ /\ pc' = "parse_digest"
          /\ UNCHANGED response
       \/ /\ response' = Some(ErrorResponse(500,
                 "Failed to connect to Sui: Failed to build Sui client"))
          /\ pc' = "done"
    /\ UNCHANGED <<digest, tx, explanation, idx, call>>

\* explain_transaction going on to the fetch whatever the digest parse says
ParseDigest_mut ==
    /\ pc = "parse_digest"
    /\ log' = Append(log, "parse_digest")
    /\ pc' = "fetch"
    /\ UNCHANGED response
    /\ UNCHANGED <<digest, tx, explanation, idx, call>>

\* digest.parse().context(..)? in SuiClient::explain_transaction; an Err
\* reaches the handler's Err arm, which answers 400
ParseDigest ==
    /\ pc = "parse_digest"
    /\ log' = Append(log, "parse_digest")
    /\ IF DigestWellFormed(digest)
       THEN /\ pc' = "fetch"
            /\ UNCHANGED response
       ELSE /\ response' = Some(ErrorResponse(400, "Invalid transaction digest format"))
            /\ pc' = "done"
    /\ UNCHANGED <<digest, tx, explanation, idx, call>>

\* get_transaction_with_options(..).await.context(..)?
Fetch ==
    /\ pc = "fetch"
    /\ log' = Append(log, "fetch")
    /\ \/ \E r \in RawRecords :
             /\ tx' = Some(r)
             /\ pc' = "pt_init"
             /\ UNCHANGED response
       \/ /\ response' = Some(ErrorResponse(400, "Failed to fetch transaction from Sui"))
          /\ pc' = "done"
          /\ UNCHANGED tx
    /\ UNCHANGED <<digest, explanation, idx, call>>

(***************************************************************************)
(* The engine: SuiClient::parse_transaction                                *)
(***************************************************************************)
Raw == Unwrap(tx)

\* the default explanation with the digest, and the sender
ParseInit ==
    /\ pc = "pt_init"
    /\ log' = Append(log, "transform")
    /\ explanation' =
          [DefaultExplanation(digest) EXCEPT
              !.sender = IF IsSome(Raw.transaction) THEN Unwrap(Raw.transaction) ELSE @]
    /\ pc' = "pt_effects"
    /\ UNCHANGED <<digest, tx, idx, response, call>>

\* a + b on u64: [overflowed, wrapped value]
U64Add(a, b) == [overflow |-> a + b >= U64Mod, value |-> (a + b) % U64Mod]
\* a - b on u64
U64Sub(a, b) == [overflow |-> a - b < 0, value |-> (a - b) % U64Mod]

\* status, gas_used and gas_used_sui from the effects section.  When the gas
\* arithmetic overflows, a build that checks overflow (debug assertions)
\* panics and a build that does not (release) wraps the value.
ParseEffects ==
    /\ pc = "pt_effects"
    /\ IF IsSome(Raw.effects)
       THEN LET effects == Unwrap(Raw.effects)
                status == IF effects.ok THEN STR_SUCCESS
                          ELSE STR_FAILED \o STR_STATUS_DEBUG
                sum == U64Add(effects.computation_cost, effects.storage_cost)
                diff == U64Sub(sum.value, effects.storage_rebate)
            IN \/ /\ sum.overflow \/ diff.overflow
                  /\ pc' = "panicked"
                  /\ explanation' = [explanation EXCEPT !.status = status]
               \/ /\ pc' = "pt_objects"
                  /\ explanation' =
                        [explanation EXCEPT
                            !.status = status,
                            !.gas_used = diff.value,
                            !.gas_used_sui = FormatGasSui(diff.value)]
       ELSE /\ pc' = "pt_objects"
            /\ UNCHANGED explanation
    /\ UNCHANGED <<digest, tx, idx, response, log, call>>

\* an iteration that keeps the record of a recognised change only
ParseObjectChange_mut ==
    /\ pc = "pt_objects"
    /\ IsSome(Raw.object_changes)
    /\ idx <= Len(Unwrap(Raw.object_changes))
    /\ LET obj_change == parse_object_change(Unwrap(Raw.object_changes)[idx])
       IN explanation' =
             [explanation EXCEPT
                 !.actions = Append(@, obj_change.details),
                 !.object_changes = IF obj_change.change_type = STR_UNKNOWN THEN @
                                    ELSE Append(@, obj_change)]
    /\ idx' = idx + 1
    /\ UNCHANGED <<pc, digest, tx, response, log, call>>

\* one iteration of the loop over tx.object_changes
ParseObjectChange ==
    /\ pc = "pt_objects"
    /\ IsSome(Raw.object_changes)
    /\ idx <= Len(Unwrap(Raw.object_changes))
    /\ LET obj_change == parse_object_change(Unwrap(Raw.object_changes)[idx])
       IN explanation' =
             [explanation EXCEPT
                 !.actions = Append(@, obj_change.details),
                 !.object_changes = Append(@, obj_change)]
    /\ idx' = idx + 1
    /\ UNCHANGED <<pc, digest, tx, response, log, call>>

\* the loop over tx.object_changes is over, or the section is absent
ObjectChangesDone ==
    /\ pc = "pt_objects"
    /\ IsSome(Raw.object_changes) => idx > Len(Unwrap(Raw.object_changes))
    /\ pc' = "pt_balances"
    /\ UNCHANGED <<digest, tx, explanation, idx, response, log, call>>

\* the loop over tx.balance_changes
ParseBalanceChanges ==
    /\ pc = "pt_balances"
    /\ explanation' =
          [explanation EXCEPT
              !.balance_changes =
                  IF IsSome(Raw.balance_changes)
                  THEN LET balances == Unwrap(Raw.balance_changes)
                       IN @ \o [k \in 1..Len(balances) |-> parse_balance_change(balances[k])]
                  ELSE @]
    /\ pc' = "pt_events"
    /\ UNCHANGED <<digest, tx, idx, response, log, call>>

\* the loop over tx.events
ParseEvents ==
    /\ pc = "pt_events"
    /\ explanation' =
          [explanation EXCEPT
              !.events =
                  IF IsSome(Raw.events)
                  THEN LET events == Unwrap(Raw.events)
                       IN @ \o [k \in 1..Len(events) |-> FormatEvent(events[k])]
                  ELSE @]
    /\ pc' = "pt_summary"
    /\ UNCHANGED <<digest, tx, idx, response, log, call>>

\* explanation.summary = self.generate_summary(&explanation); Ok(explanation)
Summarise ==
    /\ pc = "pt_summary"
    /\ explanation' = [explanation EXCEPT !.summary = generate_summary(explanation)]
    /\ pc' = "respond"
    /\ UNCHANGED <<digest, tx, idx, response, log, call>>

\* the Ok arm of the handler
Respond ==
    /\ pc = "respond"
    /\ response' = Some(OkResponse(explanation))
    /\ pc' = "done"
    /\ UNCHANGED <<digest, tx, explanation, idx, log, call>>

Next ==
    \/ Connect
    \/ ParseDigest
    \/ Fetch
    \/ ParseInit
    \/ ParseEffects
    \/ ParseObjectChange
    \/ ObjectChangesDone
    \/ ParseBalanceChanges
    \/ ParseEvents
    \/ Summarise
    \/ Respond

Spec == Init /\ [][Next]_vars

(***************************************************************************)
(* The helpers called on their own, one call per run, over all their       *)
(* inputs                                                                  *)
(***************************************************************************)
CallShortenAddress ==
    /\ call = NoCall
    /\ \E s \in SeqsUpTo(AddrChars, MaxAddrLen) :
          call' = [fn |-> "shorten_address", arg |-> s, ret |-> shorten_address(s)]
    /\ UNCHANGED <<pc, digest, tx, explanation, idx, response, log>>

CallParseObjectChange ==
    /\ call = NoCall
    /\ \E c \in AllRawChanges :
          call' = [fn |-> "parse_object_change", arg |-> c, ret |-> parse_object_change(c)]
    /\ UNCHANGED <<pc, digest, tx, explanation, idx, response, log>>

CallParseBalanceChange ==
    /\ call = NoCall
    /\ \E b \in AllRawBalances :
          call' = [fn |-> "parse_balance_change", arg |-> b, ret |-> parse_balance_change(b)]
    /\ UNCHANGED <<pc, digest, tx, explanation, idx, response, log>>

HelperNext ==
    \/ CallShortenAddress
    \/ CallParseObjectChange
    \/ CallParseBalanceChange

HelperSpec == Init /\ [][HelperNext]_vars


(***************************************************************************)
(* Claims                                                                  *)
(***************************************************************************)
EffectsParsed == pc \in {"pt_objects", "pt_balances", "pt_events",
                         "pt_summary", "respond", "done", "panicked"} /\ IsSome(tx)
SummaryWritten == pc \in {"respond", "done"} /\ IsSome(tx)

RawChangeList == IF IsSome(tx) /\ IsSome(Raw.object_changes) THEN Unwrap(Raw.object_changes) ELSE << >>
RawBalanceList == IF IsSome(tx) /\ IsSome(Raw.balance_changes) THEN Unwrap(Raw.balance_changes) ELSE << >>

\* C1: when the effects report storage_rebate > computation_cost +
\* storage_cost, the gas arithmetic either stops with a fault or leaves
\* gas_used saturated at zero; gas_used is never the wrapped difference.
C1_GasNeverWraps ==
    (/\ EffectsParsed
     /\ IsSome(Raw.effects)
     /\ Unwrap(Raw.effects).storage_rebate >
           Unwrap(Raw.effects).computation_cost + Unwrap(Raw.effects).storage_cost)
    => (pc = "panicked" \/ explanation.gas_used = 0)

\* C2: a returned ExplainResponse is either (success, explanation, no
\* error) or (no success, no explanation, error), whatever step produced it.
C2_ResponseShape ==
    IsSome(response) =>
        LET r == Unwrap(response)
        IN \/ r.success /\ IsSome(r.explanation) /\ ~IsSome(r.error)
           \/ ~r.success /\ ~IsSome(r.explanation) /\ IsSome(r.error)

C2_Witness ==
    /\ IsSome(response)
    /\ Unwrap(response).success
    /\ IsSome(Unwrap(response).explanation)
    /\ Len(Unwrap(Unwrap(response).explanation).object_changes) = 1

\* C3: in every state of the engine, also between two iterations of the
\* loop, actions and object_changes have the same length, actions[i] is
\* object_changes[i].details, the i-th element comes from the i-th raw
\* object change, and once the loop is over every raw change is there.
C3_ActionsMirrorChanges ==
    /\ Len(explanation.actions) = Len(explanation.object_changes)
    /\ \A i \in 1..Len(explanation.object_changes) :
          /\ explanation.actions[i] = explanation.object_changes[i].details
          /\ IsSome(tx)
          /\ i <= Len(RawChangeList)
          /\ explanation.object_changes[i] = parse_object_change(RawChangeList[i])
    /\ pc = "pt_objects" => Len(explanation.object_changes) = idx - 1
    /\ pc \in {"pt_balances", "pt_events", "pt_summary", "respond", "done"}
          => Len(explanation.object_changes) = Len(RawChangeList)

C3_Witness ==
    /\ pc = "pt_objects"
    /\ Len(RawChangeList) = 2
    /\ idx = 2
    /\ RawChangeList[2].variant = "Published"
    /\ RawChangeList[1].variant = "Created"
    /\ Len(explanation.actions) = 1

\* C4: a raw record without effects yields status "", gas_used 0 and
\* gas_used_sui "0.000000 SUI".
C4_NoEffectsZeroRendering ==
    (SummaryWritten /\ ~IsSome(Raw.effects)) =>
        /\ explanation.status = << >>
        /\ explanation.gas_used = 0
        /\ explanation.gas_used_sui = <<"0", ".", "0", "0", "0", "0", "0", "0", " ", "S", "U", "I">>

\* the coin type of a raw balance entry is the native coin
IsNativeCoin(coin_type) == Contains(coin_type, STR_NATIVE_MARKER)

\* C5: a native-coin balance entry is rendered with an explicit sign and
\* the " SUI" suffix, any other entry as the explicitly signed raw integer
\* without the suffix; amount is the raw amount.
C5_BalanceFormatting ==
    call.fn = "parse_balance_change" =>
        /\ call.ret.amount = call.arg.amount
        /\ IF IsNativeCoin(call.arg.coin_type)
           THEN /\ Head(call.ret.amount_readable) \in {"+", "-"}
                /\ EndsWith(call.ret.amount_readable, STR_SUI_SUFFIX)
           ELSE /\ Head(call.ret.amount_readable) \in {"+", "-"}
                /\ Tail(call.ret.amount_readable) = Digits(Abs(call.arg.amount))
                /\ (Head(call.ret.amount_readable) = "-") = (call.arg.amount < 0)
                /\ ~EndsWith(call.ret.amount_readable, STR_SUI_SUFFIX)

\* C6: the engine never aborts: whatever sections the raw record has and
\* whatever its gas costs are, parse_transaction does not panic.
C6_EngineTotal == pc # "panicked"

\* the summary as the claim words it, for a object changes, b balance
\* changes and the rendered gas
ExpectedSummary(a, b, gas) ==
    LET plural(n) == IF n # 1 THEN STR_S ELSE << >>
        objects == Digits(a) \o STR_OBJECT_CHANGE \o plural(a)
        balances == Digits(b) \o STR_BALANCE_CHANGE \o plural(b)
    IN CASE a = 0 /\ b = 0 -> STR_EXECUTED_WITH \o gas \o STR_GAS
         [] a > 0 /\ b = 0 -> objects \o STR_BULLET_GAS \o gas
         [] a = 0 /\ b > 0 -> balances \o STR_BULLET_GAS \o gas
         [] OTHER -> objects \o STR_BULLET \o balances \o STR_BULLET_GAS \o gas

\* C7: the summary is empty until the engine has filled every other field,
\* and from then on it is the sentence built from the final numbers of
\* object changes and balance changes and the final gas_used_sui.
C7_Summary ==
    /\ pc \notin {"respond", "done"} => explanation.summary = << >>
    /\ SummaryWritten =>
          /\ Len(explanation.object_changes) = Len(RawChangeList)
          /\ Len(explanation.balance_changes) = Len(RawBalanceList)
          /\ explanation.summary =
                ExpectedSummary(Len(explanation.object_changes),
                                Len(explanation.balance_changes),
                                explanation.gas_used_sui)
          /\ IsSome(response) => Unwrap(Unwrap(response).explanation) = explanation

C7_Witness ==
    /\ pc = "done"
    /\ IsSome(tx)
    /\ Len(explanation.object_changes) = 1
    /\ Len(explanation.balance_changes) = 2
    /\ explanation.gas_used = 600

StepOrder == <<"connect", "parse_digest", "fetch", "transform">>
IsPrefix(s, t) == Len(s) <= Len(t) /\ SubSeq(t, 1, Len(s)) = s
ErrorOf(resp) == IF IsSome(resp) /\ IsSome(Unwrap(resp).error)
                 THEN Unwrap(Unwrap(resp).error) ELSE ""

\* C8: the steps of a request are a prefix of connect, digest parse, fetch,
\* transform, each taken at most once; a failed step is the last one: a
\* failed connect is followed by nothing, a malformed digest by no fetch and
\* no transform, a failed fetch by no transform.
C8_StepOrder ==
    /\ IsPrefix(log, StepOrder)
    /\ ErrorOf(response) = "Failed to connect to Sui: Failed to build Sui client"
          => log = <<"connect">> /\ pc = "done"
    /\ ~DigestWellFormed(digest) =>
          /\ Len(log) <= 2
          /\ tx = None
          /\ Len(log) = 2 => pc = "done" /\ ErrorOf(response) = "Invalid transaction digest format"
    /\ ErrorOf(response) = "Failed to fetch transaction from Sui"
          => log = <<"connect", "parse_digest", "fetch">> /\ pc = "done" /\ tx = None
    /\ tx = None => Len(log) <= 3 /\ explanation = DefaultExplanation(<< >>)

C8_Witness ==
    /\ pc = "done"
    /\ log = <<"connect", "parse_digest">>
    /\ ErrorOf(response) = "Invalid transaction digest format"

\* C9: parse_object_change names the raw variant, keeps the owner of a
\* Created or Mutated object and the recipient of a Transferred one, has no
\* owner for Deleted and for any other variant, and any other variant is
\* "Unknown" in change_type, object_type and object_id with the details
\* "Unknown object change".
C9_ObjectChange ==
    call.fn = "parse_object_change" =>
        LET c == call.arg
            r == call.ret
        IN /\ r.change_type \in {STR_CREATED, STR_TRANSFERRED, STR_MUTATED, STR_DELETED, STR_UNKNOWN}
           /\ c.variant = "Created" => r.change_type = STR_CREATED /\ r.owner = Some(c.owner)
           /\ c.variant = "Transferred" =>
                 r.change_type = STR_TRANSFERRED /\ r.owner = Some(c.recipient)
           /\ c.variant = "Mutated" => r.change_type = STR_MUTATED /\ r.owner = Some(c.owner)
           /\ c.variant = "Deleted" => r.change_type = STR_DELETED /\ r.owner = None
           /\ c.variant \notin {"Created", "Transferred", "Mutated", "Deleted"} =>
                 /\ r.change_type = STR_UNKNOWN
                 /\ r.owner = None
                 /\ r.object_type = STR_UNKNOWN
                 /\ r.object_id = STR_UNKNOWN
                 /\ r.details = STR_UNKNOWN_CHANGE

C9_Witness ==
    /\ call.fn = "parse_object_change"
    /\ call.arg.variant = "Transferred"
    /\ call.arg.sender # call.arg.recipient
    /\ call.ret.owner = Some(call.arg.recipient)

\* C10: shorten_address returns an address of at most 10 characters as it
\* is, and a longer one as its first 6 characters, "..." and its last 4
\* characters, 13 characters in all.
C10_ShortenAddress ==
    call.fn = "shorten_address" =>
        LET s == call.arg
            r == call.ret
        IN IF Len(s) <= 10
           THEN r = s
           ELSE /\ Len(r) = 13
                /\ \A k \in 1..6 : r[k] = s[k]
                /\ \A k \in 7..9 : r[k] = "."
                /\ \A k \in 1..4 : r[9 + k] = s[Len(s) - 4 + k]

C10_Witness ==
    /\ call.fn = "shorten_address"
    /\ Len(call.arg) = 11
    /\ call.arg[7] # call.arg[8]
    /\ Len(call.ret) = 13

====
